---- MODULE Spec2Model ----
(***************************************************************************)
(* Model of CoreHeightController (src/src/HeightController.ts): the        *)
(* request queue, the drain loop processQueue with its expand/shrink       *)
(* ordering and its catch block, and dispose.                              *)
(*                                                                         *)
(* JavaScript runs every handler to its next await without interruption.   *)
(* Each action below is therefore one such run: the synchronous part of an *)
(* adjustHeight call, the resumption of a drain loop after the promise it  *)
(* awaits has settled, or a dispose call.  What a run does is computed by  *)
(* set-valued operators, one per program point of processQueue; they      *)
(* yield sets because callbacks are caller code: each invocation may       *)
(* return or throw, and may call back into the controller.                 *)
(***************************************************************************)
EXTENDS Integers, Sequences, FiniteSets, TLC

VARIABLES
    currentHeight,  \* CoreHeightController.currentHeight
    behaviorQueue,  \* CoreHeightController.behaviorQueue (ids of accepted calls)
    executing,      \* CoreHeightController.executing
    isDisposed,     \* CoreHeightController._isDisposed
    loops,          \* invocations of processQueue: where each one stands
    calls,          \* accepted adjustHeight calls: the behavior and the promise returned
    pendingUI,      \* requests in flight whose onUIChange returned a promise not yet settled
    trace,          \* what the controller did, in order: <<event, request id, height>>
    dropped,        \* the requests that dispose() removed from the queue
    lastCall        \* the call of the public interface made in the last step, if any,
                    \* and how it came back to its caller

vars == <<currentHeight, behaviorQueue, executing, isDisposed, loops, calls,
          pendingUI, trace, dropped, lastCall>>

-----------------------------------------------------------------------------
(* Bounds of the model *)

\* accepted adjustHeight calls in one behaviour of the model
MaxCalls == 3

(* Program constants *)

MIN_REASONABLE_HEIGHT == 1
MAX_REASONABLE_HEIGHT == 10000

-----------------------------------------------------------------------------
(* Values *)

\* a JavaScript value given as targetHeight: its typeof/finite class and,
\* for a finite number, the number
Num(n) == [t |-> "number", v |-> n]
NotANumber == [t |-> "NaN", v |-> 0]
PosInfinity == [t |-> "Infinity", v |-> 0]
NegInfinity == [t |-> "-Infinity", v |-> 0]
AString == [t |-> "string", v |-> 0]

ValidHeights == {MIN_REASONABLE_HEIGHT, MAX_REASONABLE_HEIGHT}

TargetValues ==
    {Num(h) : h \in ValidHeights \cup {0, MAX_REASONABLE_HEIGHT + 1, 20000}}
        \cup {NotANumber, PosInfinity, NegInfinity, AString}

\* onUIChange, onUIComplete: absent, a function, or a value that is no function
CallbackValues == {"undefined", "function", "notFunction"}

NullBehavior ==
    [tag |-> "null", targetHeight |-> AString,
     onUIChange |-> "undefined", onUIComplete |-> "undefined"]

Behavior(th, chg, cmp) ==
    [tag |-> "object", targetHeight |-> th, onUIChange |-> chg, onUIComplete |-> cmp]

ValidBehaviors ==
    {Behavior(Num(h), chg, cmp) :
        h \in ValidHeights, chg \in {"undefined", "function"},
        cmp \in {"undefined", "function"}}

\* rejected behaviors, for each way of being invalid; an invalid targetHeight
\* comes with callbacks that are invalid too, and a height just above the
\* range also without callbacks
InvalidBehaviors ==
    {NullBehavior, Behavior(Num(MAX_REASONABLE_HEIGHT + 1), "undefined", "undefined")}
    \cup {Behavior(th, "notFunction", "notFunction") :
             th \in TargetValues \ {Num(h) : h \in ValidHeights}}
    \cup {Behavior(Num(h), "notFunction", cmp) :
             h \in ValidHeights, cmp \in CallbackValues}
    \cup {Behavior(Num(h), "function", "notFunction") : h \in ValidHeights}

Behaviors == ValidBehaviors \cup InvalidBehaviors

\* what a callback may do to the controller while it runs
ReentrantBehaviors ==
    {Behavior(Num(h), "undefined", "undefined") : h \in ValidHeights}

-----------------------------------------------------------------------------
(* types.ts *)

isReasonableHeight(height) ==
    height >= MIN_REASONABLE_HEIGHT /\ height <= MAX_REASONABLE_HEIGHT

-----------------------------------------------------------------------------
(* The controller state as one value, so that a run can be computed *)

St ==
    [currentHeight |-> currentHeight, behaviorQueue |-> behaviorQueue,
     executing |-> executing, isDisposed |-> isDisposed, loops |-> loops,
     calls |-> calls, pendingUI |-> pendingUI, trace |-> trace,
     dropped |-> dropped]

Becomes(s) ==
    /\ currentHeight' = s.currentHeight
    /\ behaviorQueue' = s.behaviorQueue
    /\ executing' = s.executing
    /\ isDisposed' = s.isDisposed
    /\ loops' = s.loops
    /\ calls' = s.calls
    /\ pendingUI' = s.pendingUI
    /\ trace' = s.trace
    /\ dropped' = s.dropped

\* an event of request id; arg is the height the event carries, or 0
LogArg(s, ev, id, arg) == [s EXCEPT !.trace = Append(@, <<ev, id, arg>>)]
Log(s, ev, id) == LogArg(s, ev, id, 0)

\* the behavior object of accepted call id
B(s, id) == s.calls[id].b
Target(s, id) == B(s, id).targetHeight.v

\* invocations of processQueue that have neither returned nor thrown
Active(ls) == {f \in DOMAIN ls : ls[f].pc \notin {"returned", "threw"}}

NoCall == [op |-> "none", result |-> "none"]

Init_StartsAtMinimum ==
    /\ currentHeight = MIN_REASONABLE_HEIGHT
    /\ behaviorQueue = <<>>
    /\ executing = FALSE
    /\ isDisposed = FALSE
    /\ loops = <<>>
    /\ calls = <<>>
    /\ pendingUI = {}
    /\ trace = <<>>
    /\ dropped = {}
    /\ lastCall = NoCall

Init ==
    /\ currentHeight = 0
    /\ behaviorQueue = <<>>
    /\ executing = FALSE
    /\ isDisposed = FALSE
    /\ loops = <<>>
    /\ calls = <<>>
    /\ pendingUI = {}
    /\ trace = <<>>
    /\ dropped = {}
    /\ lastCall = NoCall

-----------------------------------------------------------------------------
(* HeightController.ts: validation and disposal *)

\* mutant: the disposed check is missing
ensureNotDisposed_Missing(s) == "ok"

\* "ok", or the error the call is rejected with
ensureNotDisposed(s) == IF s.isDisposed THEN "disposed" ELSE "ok"

\* mutant: the minimum is checked before finiteness
validateHeightBehavior_MinFirst(b) ==
    IF b.tag # "object" THEN "invalid behavior"
    ELSE IF b.targetHeight.t = "string" THEN "expected number"
    ELSE IF b.targetHeight.t = "-Infinity"
            \/ (b.targetHeight.t = "number" /\ b.targetHeight.v < MIN_REASONABLE_HEIGHT)
         THEN "below minimum"
    ELSE IF b.targetHeight.t # "number" THEN "not finite"
    ELSE IF ~isReasonableHeight(b.targetHeight.v) THEN "out of range"
    ELSE IF b.onUIChange \notin {"undefined", "function"} THEN "invalid onUIChange"
    ELSE IF b.onUIComplete \notin {"undefined", "function"} THEN "invalid onUIComplete"
    ELSE "ok"

\* mutant: the check of the upper limit is missing
validateHeightBehavior_NoUpper(b) ==
    IF b.tag # "object" THEN "invalid behavior"
    ELSE IF b.targetHeight.t = "string" THEN "expected number"
    ELSE IF b.targetHeight.t # "number" THEN "not finite"
    ELSE IF b.targetHeight.v < MIN_REASONABLE_HEIGHT THEN "below minimum"
    ELSE IF b.onUIChange \notin {"undefined", "function"} THEN "invalid onUIChange"
    ELSE IF b.onUIComplete \notin {"undefined", "function"} THEN "invalid onUIComplete"
    ELSE "ok"

validateHeightBehavior(b) ==
    IF b.tag # "object" THEN "invalid behavior"
    ELSE IF b.targetHeight.t = "string" THEN "expected number"
    ELSE IF b.targetHeight.t # "number" THEN "not finite"
    ELSE IF b.targetHeight.v < MIN_REASONABLE_HEIGHT THEN "below minimum"
    ELSE IF ~isReasonableHeight(b.targetHeight.v) THEN "out of range"
    ELSE IF b.onUIChange \notin {"undefined", "function"} THEN "invalid onUIChange"
    ELSE IF b.onUIComplete \notin {"undefined", "function"} THEN "invalid onUIComplete"
    ELSE "ok"

\* the requests waiting in the queue
Queued(s) == {s.behaviorQueue[k] : k \in DOMAIN s.behaviorQueue}

\* mutant: the flag is flipped instead of set
dispose_Toggles(s) ==
    [s EXCEPT !.behaviorQueue = <<>>, !.executing = FALSE, !.isDisposed = ~@,
              !.dropped = @ \cup Queued(s)]

\* mutant: no early return, and currentHeight is reset with the rest
dispose_ResetsAll(s) ==
    [s EXCEPT !.behaviorQueue = <<>>, !.executing = FALSE, !.isDisposed = TRUE,
              !.currentHeight = 0,
              !.dropped = IF s.isDisposed THEN @ ELSE Queued(s)]

\* mutant: the queue is not emptied
dispose_KeepsQueue(s) ==
    IF s.isDisposed THEN s
    ELSE [s EXCEPT !.executing = FALSE, !.isDisposed = TRUE,
                   !.dropped = Queued(s)]

dispose(s) ==
    IF s.isDisposed THEN s
    ELSE [s EXCEPT !.behaviorQueue = <<>>, !.executing = FALSE, !.isDisposed = TRUE,
                   !.dropped = Queued(s)]

-----------------------------------------------------------------------------
(* HeightController.ts: adjustHeight and processQueue.  Every operator      *)
(* yields the set of states in which the run it is part of can end.        *)

RECURSIVE adjustHeight(_, _), processQueue(_, _), whileLoop(_, _),
          expandUIChange(_, _), expandUIComplete(_, _),
          shrinkUIChange(_, _), shrinkUIComplete(_, _), shrinkBridge(_, _),
          updateCurrentHeight(_, _), catchBlock(_, _),
          Reentries(_), invokeUIChange(_, _), invokeUIComplete(_, _)

\* the request loop f is working on
Cur(s, f) == s.loops[f].cur

\* loop f stops at the await of line pt until the awaited promise settles
Suspend(s, f, pt) == [s EXCEPT !.loops[f].pc = pt]

\* processQueue returns (line 142): the promise of the call that started it resolves
Return(s, f) ==
    [s EXCEPT !.executing = FALSE,
              !.loops[f] = [@ EXCEPT !.pc = "returned", !.cur = 0],
              !.calls[s.loops[f].starter].promise = "resolved"]

\* an error leaves processQueue: the promise of the call that started it rejects
Throw(s, f) ==
    [Log(s, "processQueueThrew", Cur(s, f))
        EXCEPT !.loops[f] = [@ EXCEPT !.pc = "threw", !.cur = 0],
               !.pendingUI = @ \ {Cur(s, f)},
               !.calls[s.loops[f].starter].promise = "rejected"]

\* request id is done: currentHeight has just been assigned (lines 120, 136)
Settle(s, id) ==
    LogArg([s EXCEPT !.pendingUI = @ \ {id}], "commit", id, s.currentHeight)

\* what caller code running inside a callback may do to the controller
Reentries(s) ==
    {s} \cup {dispose(s)} \cup
    (IF Len(s.calls) < MaxCalls
        THEN UNION {adjustHeight(s, b) : b \in ReentrantBehaviors}
        ELSE {})

\* behavior.onUIChange(): the result is not awaited
invokeUIChange(s, id) ==
    LET entered == Reentries(Log(s, "onUIChange", id)) IN
    {[s |-> r, threw |-> FALSE] : r \in entered}
    \cup {[s |-> [r EXCEPT !.pendingUI = @ \cup {id}], threw |-> FALSE] : r \in entered}
    \cup {[s |-> Log(r, "onUIChangeThrew", id), threw |-> TRUE] : r \in entered}

\* behavior.onUIComplete(): the call itself, before its result is awaited
invokeUIComplete(s, id) ==
    LET entered == Reentries(Log(s, "onUIComplete", id)) IN
    {[s |-> r, threw |-> FALSE] : r \in entered}
    \cup {[s |-> Log(r, "onUICompleteFailed", id), threw |-> TRUE] : r \in entered}

\* mutant: >= for >
isExpanding_Geq(s, id) == Target(s, id) >= s.currentHeight

isExpanding(s, id) == Target(s, id) > s.currentHeight

\* mutant: pop() for shift(), the newest request first
whileLoop_Pop(s, f) ==
    IF Len(s.behaviorQueue) > 0
    THEN LET id == s.behaviorQueue[Len(s.behaviorQueue)]
             s1 == LogArg([s EXCEPT !.behaviorQueue = SubSeq(@, 1, Len(@) - 1),
                                    !.loops[f].cur = id],
                          "dequeue", id, s.currentHeight)
         IN IF isExpanding(s1, id)
                THEN {Suspend(LogArg(s1, "bridgeCall", id, Target(s1, id)), f, "L101")}
                ELSE shrinkUIChange(s1, f)
    ELSE {Return(s, f)}

\* mutant: currentHeight is assigned when the request is dequeued
whileLoop_Speculative(s, f) ==
    IF Len(s.behaviorQueue) > 0
    THEN LET id == Head(s.behaviorQueue)
             s1 == LogArg([s EXCEPT !.behaviorQueue = Tail(@), !.loops[f].cur = id,
                                    !.currentHeight = Target(s, id)],
                          "dequeue", id, s.currentHeight)
         IN IF isExpanding(s, id)
                THEN {Suspend(LogArg(s1, "bridgeCall", id, Target(s1, id)), f, "L101")}
                ELSE shrinkUIChange(s1, f)
    ELSE {Return(s, f)}

\* mutant: a request for the current height is skipped
whileLoop_SkipSame(s, f) ==
    IF Len(s.behaviorQueue) > 0
    THEN LET id == Head(s.behaviorQueue)
             s1 == LogArg([s EXCEPT !.behaviorQueue = Tail(@), !.loops[f].cur = id],
                          "dequeue", id, s.currentHeight)
         IN IF Target(s1, id) = s1.currentHeight
                THEN updateCurrentHeight(s1, f)
                ELSE IF isExpanding(s1, id)
                THEN {Suspend(LogArg(s1, "bridgeCall", id, Target(s1, id)), f, "L101")}
                ELSE shrinkUIChange(s1, f)
    ELSE {Return(s, f)}

\* lines 88-101: the loop test, the dequeue, the choice of the path
whileLoop(s, f) ==
    IF Len(s.behaviorQueue) > 0
    THEN LET id == Head(s.behaviorQueue)
             s1 == LogArg([s EXCEPT !.behaviorQueue = Tail(@), !.loops[f].cur = id],
                          "dequeue", id, s.currentHeight)
         IN IF isExpanding(s1, id)
                THEN {Suspend(LogArg(s1, "bridgeCall", id, Target(s1, id)), f, "L101")}
                ELSE shrinkUIChange(s1, f)
    ELSE {Return(s, f)}

\* lines 102-104
expandUIChange(s, f) ==
    IF B(s, Cur(s, f)).onUIChange # "undefined"
    THEN UNION {IF r.threw THEN catchBlock(r.s, f) ELSE expandUIComplete(r.s, f) :
                   r \in invokeUIChange(s, Cur(s, f))}
    ELSE expandUIComplete(s, f)

\* lines 105-107
expandUIComplete(s, f) ==
    IF B(s, Cur(s, f)).onUIComplete # "undefined"
    THEN UNION {IF r.threw THEN catchBlock(r.s, f) ELSE {Suspend(r.s, f, "L106")} :
                   r \in invokeUIComplete(s, Cur(s, f))}
    ELSE updateCurrentHeight(s, f)

\* lines 110-112
shrinkUIChange(s, f) ==
    IF B(s, Cur(s, f)).onUIChange # "undefined"
    THEN UNION {IF r.threw THEN catchBlock(r.s, f) ELSE shrinkUIComplete(r.s, f) :
                   r \in invokeUIChange(s, Cur(s, f))}
    ELSE shrinkUIComplete(s, f)

\* lines 113-115
shrinkUIComplete(s, f) ==
    IF B(s, Cur(s, f)).onUIComplete # "undefined"
    THEN UNION {IF r.threw THEN catchBlock(r.s, f) ELSE {Suspend(r.s, f, "L114")} :
                   r \in invokeUIComplete(s, Cur(s, f))}
    ELSE shrinkBridge(s, f)

\* line 116
shrinkBridge(s, f) ==
    {Suspend(LogArg(s, "bridgeCall", Cur(s, f), Target(s, Cur(s, f))), f, "L116")}

\* mutant: currentHeight is taken from what the bridge reported
updateCurrentHeight_FromBridge(s, f) ==
    LET id == Cur(s, f)
        oks == {k \in DOMAIN s.trace : s.trace[k][1] = "bridgeOk" /\ s.trace[k][2] = id}
        h == IF oks = {} THEN Target(s, id) ELSE s.trace[CHOOSE k \in oks : TRUE][3]
    IN whileLoop(Settle([s EXCEPT !.currentHeight = h], id), f)

\* mutant: a request in flight is abandoned once the controller is disposed
updateCurrentHeight_Cancelled(s, f) ==
    IF s.isDisposed
    THEN {Return(s, f)}
    ELSE whileLoop(Settle([s EXCEPT !.currentHeight = Target(s, Cur(s, f))], Cur(s, f)), f)

\* mutant: "if" for "while", the loop returns after one request
updateCurrentHeight_NoLoop(s, f) ==
    {Return(Settle([s EXCEPT !.currentHeight = Target(s, Cur(s, f))], Cur(s, f)), f)}

\* line 120, then the loop test again
updateCurrentHeight(s, f) ==
    whileLoop(Settle([s EXCEPT !.currentHeight = Target(s, Cur(s, f))], Cur(s, f)), f)

\* mutant: the catch block does not assign currentHeight
catchBlock_NoCommit(s, f) ==
    LET id == Cur(s, f)
        recover(r) == whileLoop(Settle(r, id), f)
    IN IF B(s, id).onUIChange # "undefined"
       THEN UNION {IF r.threw THEN {Throw(r.s, f)} ELSE recover(r.s) :
                      r \in invokeUIChange(s, id)}
       ELSE recover(s)

\* lines 126-139, then the loop test again
catchBlock(s, f) ==
    LET id == Cur(s, f)
        recover(r) == whileLoop(Settle([r EXCEPT !.currentHeight = Target(r, id)], id), f)
    IN IF B(s, id).onUIChange # "undefined"
       THEN UNION {IF r.threw THEN {Throw(r.s, f)} ELSE recover(r.s) :
                      r \in invokeUIChange(s, id)}
       ELSE recover(s)

\* lines 85-143
processQueue(s, starter) ==
    LET f == Len(s.loops) + 1
        s1 == [s EXCEPT !.executing = TRUE,
                        !.loops = Append(@, [starter |-> starter, pc |-> "running",
                                             cur |-> 0])]
    IN whileLoop(s1, f)

\* mutant: the request is validated before the disposed check
Rejection_ValidateFirst(s, b) ==
    IF validateHeightBehavior(b) # "ok" THEN validateHeightBehavior(b)
    ELSE ensureNotDisposed(s)

\* lines 65-66: "ok", or the error thrown before the request is queued
Rejection(s, b) ==
    IF ensureNotDisposed(s) # "ok" THEN ensureNotDisposed(s)
    ELSE validateHeightBehavior(b)

\* mutant: a drain is started whenever the queue was empty
adjustHeight_ChecksQueueOnly(s, b) ==
    IF Rejection(s, b) # "ok" THEN {s}
    ELSE LET id == Len(s.calls) + 1
             s1 == [s EXCEPT !.calls = Append(@, [b |-> b, promise |-> "pending"]),
                             !.behaviorQueue = Append(@, id)]
         IN IF Len(s1.behaviorQueue) = 1
                THEN processQueue(s1, id)
                ELSE {[s1 EXCEPT !.calls[id].promise = "resolved"]}

\* mutant: the executing flag is not consulted
adjustHeight_NoFlag(s, b) ==
    IF Rejection(s, b) # "ok" THEN {s}
    ELSE LET id == Len(s.calls) + 1
             s1 == [s EXCEPT !.calls = Append(@, [b |-> b, promise |-> "pending"]),
                             !.behaviorQueue = Append(@, id)]
         IN processQueue(s1, id)

\* lines 64-79: a call that is rejected changes nothing
adjustHeight(s, b) ==
    IF Rejection(s, b) # "ok" THEN {s}
    ELSE LET id == Len(s.calls) + 1
             s1 == [s EXCEPT !.calls = Append(@, [b |-> b, promise |-> "pending"]),
                             !.behaviorQueue = Append(@, id)]
         IN IF ~s1.executing
                THEN processQueue(s1, id)
                ELSE {[s1 EXCEPT !.calls[id].promise = "resolved"]}

-----------------------------------------------------------------------------
(* Actions: one per run *)

\* a caller calls adjustHeight(b)
AdjustHeight(b) ==
    /\ Len(calls) < MaxCalls
    /\ \E s \in adjustHeight(St, b) : Becomes(s)
    /\ lastCall' = [op |-> "adjustHeight", result |-> Rejection(St, b)]

\* a caller calls dispose(); it returns without a value, whether the
\* controller was disposed already or not
Dispose ==
    /\ Becomes(dispose(St))
    /\ lastCall' = [op |-> "dispose",
                    result |-> IF isDisposed THEN "was disposed" ELSE "disposed now"]

\* the promise of bridge.updateHeight resolves with v, the height the
\* platform reports, and loop f goes on; the value of the await expression
\* is not assigned to anything
BridgeReturns(f, v) ==
    /\ loops[f].pc \in {"L101", "L116"}
    /\ LET s == LogArg(Suspend(St, f, "running"), "bridgeOk", loops[f].cur, v)
       IN \E n \in (IF loops[f].pc = "L101" THEN expandUIChange(s, f)
                                            ELSE updateCurrentHeight(s, f)) :
              Becomes(n)
    /\ lastCall' = NoCall

\* a bridge that reports the height it was asked for, as the bridge of the
\* tests and the fallback of FeishuBridge do
BridgeResolves(f) == BridgeReturns(f, calls[loops[f].cur].b.targetHeight.v)

\* the promise of bridge.updateHeight rejects and loop f goes to its catch block
BridgeRejects(f) ==
    /\ loops[f].pc \in {"L101", "L116"}
    /\ \E n \in catchBlock(Log(Suspend(St, f, "running"), "bridgeFailed", loops[f].cur), f) :
           Becomes(n)
    /\ lastCall' = NoCall

\* the awaited result of onUIComplete resolves and loop f goes on
UICompleteResolves(f) ==
    /\ loops[f].pc \in {"L106", "L114"}
    /\ LET s == Log(Suspend(St, f, "running"), "onUICompleteDone", loops[f].cur)
       IN \E n \in (IF loops[f].pc = "L106" THEN updateCurrentHeight(s, f)
                                            ELSE shrinkBridge(s, f)) :
              Becomes(n)
    /\ lastCall' = NoCall

\* the awaited result of onUIComplete rejects and loop f goes to its catch block
UICompleteRejects(f) ==
    /\ loops[f].pc \in {"L106", "L114"}
    /\ \E n \in catchBlock(Log(Suspend(St, f, "running"), "onUICompleteFailed",
                               loops[f].cur), f) :
           Becomes(n)
    /\ lastCall' = NoCall

\* the promise an async onUIChange returned settles; nobody awaits it
UIChangeSettles(id) ==
    /\ id \in pendingUI
    /\ Becomes([St EXCEPT !.pendingUI = @ \ {id}])
    /\ lastCall' = NoCall

Next ==
    \/ \E b \in Behaviors : AdjustHeight(b)
    \/ Dispose
    \/ \E f \in DOMAIN loops : BridgeResolves(f)
    \/ \E f \in DOMAIN loops : BridgeRejects(f)
    \/ \E f \in DOMAIN loops : UICompleteResolves(f)
    \/ \E f \in DOMAIN loops : UICompleteRejects(f)
    \/ \E id \in pendingUI : UIChangeSettles(id)

Spec == Init /\ [][Next]_vars

\* heights a platform may report
ReportedHeights == ValidHeights \cup {0}

\* requests without callbacks
PlainBehaviors == {Behavior(Num(h), "undefined", "undefined") : h \in ValidHeights}

\* the controller given requests without callbacks, on a bridge that may
\* report any height, not only the one it was asked for
NextAnyBridge ==
    \/ \E b \in PlainBehaviors : AdjustHeight(b)
    \/ Dispose
    \/ \E f \in DOMAIN loops : \E v \in ReportedHeights : BridgeReturns(f, v)
    \/ \E f \in DOMAIN loops : BridgeRejects(f)

SpecAnyBridge == Init /\ [][NextAnyBridge]_vars

-----------------------------------------------------------------------------
(* FeishuBridge.ts *)

\* calls of FeishuPlatformBridge.updateHeight in one behaviour of the model
MaxBridgeCalls == 2

\* docMiniApp as the bridge finds it: without Bridge, with a Bridge that has
\* no updateHeight, or with a Bridge.updateHeight that resolves, returns a
\* promise that rejects, or throws when called
DocMiniApps == {"noBridge", "noUpdateHeight", "resolves", "rejects", "throws"}

\* the heights a caller may pass to the bridge
BridgeHeights ==
    {Num(h) : h \in {-1, 0, 1, 600, MAX_REASONABLE_HEIGHT}}
        \cup {NotANumber, PosInfinity, NegInfinity}

\* line 34: targetHeight <= 0, false for NaN
NotPositive(targetHeight) ==
    \/ targetHeight.t = "-Infinity"
    \/ targetHeight.t = "number" /\ targetHeight.v <= 0

PlatformBridgeError(message) ==
    [outcome |-> "rejected", error |-> "PlatformBridgeError", message |-> message]

\* mutant: no guard on the height
updateHeight_NoGuard(targetHeight, docMiniApp) ==
    IF docMiniApp \in {"noBridge", "noUpdateHeight"}
    THEN [settled |-> [outcome |-> "resolved", value |-> targetHeight],
          platformCalls |-> <<>>]
    ELSE IF docMiniApp = "resolves"
    THEN [settled |-> [outcome |-> "resolved", value |-> targetHeight],
          platformCalls |-> <<targetHeight>>]
    ELSE [settled |-> PlatformBridgeError("Failed to update height"),
          platformCalls |-> <<targetHeight>>]

\* lines 33-71: how the promise of updateHeight settles, and the calls of
\* docMiniApp.Bridge.updateHeight made on the way
updateHeight(targetHeight, docMiniApp) ==
    IF NotPositive(targetHeight)
    THEN [settled |-> PlatformBridgeError("Invalid height"), platformCalls |-> <<>>]
    ELSE IF docMiniApp \in {"noBridge", "noUpdateHeight"}
    THEN [settled |-> [outcome |-> "resolved", value |-> targetHeight],
          platformCalls |-> <<>>]
    ELSE IF docMiniApp = "resolves"
    THEN [settled |-> [outcome |-> "resolved", value |-> targetHeight],
          platformCalls |-> <<targetHeight>>]
    ELSE [settled |-> PlatformBridgeError("Failed to update height"),
          platformCalls |-> <<targetHeight>>]

\* a caller calls updateHeight(targetHeight) on a FeishuPlatformBridge built
\* on docMiniApp, and the promise settles; the trace keeps the calls made
\* to the platform
UpdateHeight(targetHeight, docMiniApp) ==
    /\ Cardinality({k \in DOMAIN trace : trace[k][1] = "updateHeight"}) < MaxBridgeCalls
    /\ LET r == updateHeight(targetHeight, docMiniApp)
       IN /\ trace' = trace \o <<<<"updateHeight", 0, targetHeight>>>>
                            \o [k \in DOMAIN r.platformCalls |->
                                   <<"platformCall", 0, r.platformCalls[k]>>]
          /\ lastCall' = [op |-> "updateHeight", result |-> r.settled.outcome,
                          targetHeight |-> targetHeight, docMiniApp |-> docMiniApp,
                          settled |-> r.settled]
    /\ UNCHANGED <<currentHeight, behaviorQueue, executing, isDisposed, loops,
                   calls, pendingUI, dropped>>

NextFeishu == \E th \in BridgeHeights, d \in DocMiniApps : UpdateHeight(th, d)

SpecFeishu == Init /\ [][NextFeishu]_vars

-----------------------------------------------------------------------------
(* Reading the trace *)

\* the positions of event ev of request id
Pos(ev, id) == {k \in DOMAIN trace : trace[k][1] = ev /\ trace[k][2] = id}
Happened(ev, id) == Pos(ev, id) # {}
Count(ev, id) == Cardinality(Pos(ev, id))
\* some position of X comes before position q
SomeBefore(X, q) == \E p \in X : p < q
\* every position of X comes before every position of Y
AllBefore(X, Y) == \A p \in X, q \in Y : p < q

Ids == DOMAIN calls
HasUIChange(id) == calls[id].b.onUIChange = "function"
HasUIComplete(id) == calls[id].b.onUIComplete = "function"
TargetOf(id) == calls[id].b.targetHeight.v

Dequeued(id) == Happened("dequeue", id)
\* currentHeight at the moment request id was dequeued
HeightAtDequeue(id) == trace[CHOOSE k \in Pos("dequeue", id) : TRUE][3]
ExpandCase(id) == Dequeued(id) /\ TargetOf(id) > HeightAtDequeue(id)
ShrinkCase(id) == Dequeued(id) /\ TargetOf(id) <= HeightAtDequeue(id)

BridgeSettled(id) == Pos("bridgeOk", id) \cup Pos("bridgeFailed", id)
UICompleteSettled(id) == Pos("onUICompleteDone", id) \cup Pos("onUICompleteFailed", id)

\* the requests passed to bridge.updateHeight, in the order of the calls
BridgeCalls == SelectSeq(trace, LAMBDA e : e[1] = "bridgeCall")

NoCallbackFailed ==
    \A k \in DOMAIN trace : trace[k][1] \notin {"onUIChangeThrew", "onUICompleteFailed"}

Quiescent == behaviorQueue = <<>> /\ Active(loops) = {}

-----------------------------------------------------------------------------
(* Serialization *)

\* C1: as long as no callback has thrown or rejected and the controller is
\* not disposed, the calls of bridge.updateHeight are exactly the accepted
\* requests in submission order, each once and with its own targetHeight:
\* the k-th bridge call is for the k-th accepted request, every request is
\* called for once the controller is quiescent, and the bridge call of a
\* request starts only after the bridge call of every earlier request has
\* settled.
C1_BridgeCallsInSubmissionOrder ==
    (NoCallbackFailed /\ ~isDisposed) =>
        /\ Len(BridgeCalls) <= Len(calls)
        /\ \A k \in DOMAIN BridgeCalls :
              BridgeCalls[k][2] = k /\ BridgeCalls[k][3] = TargetOf(k)
        /\ \A id \in Ids : Happened("commit", id) => Count("bridgeCall", id) = 1
        /\ Quiescent => Len(BridgeCalls) = Len(calls)
        /\ \A q \in DOMAIN trace :
              trace[q][1] = "bridgeCall" =>
                  \A j \in 1..(trace[q][2] - 1) : SomeBefore(BridgeSettled(j), q)

\* three requests, the second and third accepted while the one drain loop
\* was running, all passed to the bridge
C1_Witness ==
    /\ NoCallbackFailed /\ ~isDisposed /\ Quiescent
    /\ Len(loops) = 1 /\ Len(calls) >= 3
    /\ Len(BridgeCalls) = Len(calls)
    /\ \E k \in DOMAIN BridgeCalls : k > 1 /\ BridgeCalls[k][3] < BridgeCalls[k - 1][3]

\* C2: at most one invocation of processQueue is active (has neither
\* returned nor thrown) in every reachable state.
C2_AtMostOneDrainLoop == Cardinality(Active(loops)) <= 1

\* dispose() was called while a request was in flight: executing is false
\* again although the drain loop is still suspended on that request
C2_Witness ==
    /\ isDisposed /\ ~executing
    /\ Active(loops) # {}
    /\ Len(calls) >= 2

\* C3: the steps of different requests never interleave: in the order of
\* events, every step of a request comes before every step of any request
\* submitted after it (so the onUIChange callbacks run in submission order).
C3_NoInterleaving ==
    \A p, q \in DOMAIN trace : p < q => trace[p][2] <= trace[q][2]

\* two requests with onUIChange, both invoked, the second one settled
C3_Witness ==
    \E i, j \in Ids :
        /\ i < j
        /\ Happened("onUIChange", i) /\ Happened("onUIChange", j)
        /\ Happened("commit", i) /\ Happened("commit", j)

-----------------------------------------------------------------------------
(* Ordering of the bridge call and the callbacks *)

\* C4: expand ordering.  For a request dequeued with targetHeight >
\* currentHeight, the bridge call has settled before onUIChange is invoked,
\* onUIChange is invoked before onUIComplete begins, and while onUIComplete
\* is awaited the promise that onUIChange returned has settled.
C4_ExpandOrdering ==
    \A id \in Ids :
        ExpandCase(id) =>
            /\ \A q \in Pos("onUIChange", id) : SomeBefore(BridgeSettled(id), q)
            /\ \A q \in Pos("onUIComplete", id) :
                  HasUIChange(id) => SomeBefore(Pos("onUIChange", id), q)
            /\ \A f \in DOMAIN loops :
                  (loops[f].cur = id /\ loops[f].pc = "L106") => id \notin pendingUI

\* C5: shrink ordering.  For a request dequeued with targetHeight <=
\* currentHeight, onUIChange is invoked before onUIComplete begins, and
\* bridge.updateHeight is called only after onUIChange was invoked and the
\* awaited onUIComplete has resolved.
C5_ShrinkOrdering ==
    \A id \in Ids :
        ShrinkCase(id) =>
            /\ \A q \in Pos("onUIComplete", id) :
                  HasUIChange(id) => SomeBefore(Pos("onUIChange", id), q)
            /\ \A q \in Pos("bridgeCall", id) :
                  /\ HasUIChange(id) => SomeBefore(Pos("onUIChange", id), q)
                  /\ HasUIComplete(id) => SomeBefore(Pos("onUICompleteDone", id), q)
                  /\ AllBefore(Pos("onUIComplete", id), {q})

\* a request with both callbacks went down the shrink path and its bridge
\* call resolved
C5_Witness ==
    \E id \in Ids :
        /\ ShrinkCase(id) /\ HasUIChange(id) /\ HasUIComplete(id)
        /\ Happened("bridgeOk", id) /\ Happened("commit", id)

-----------------------------------------------------------------------------
(* Failure recovery *)

\* a request is waiting and nothing will ever dequeue it
Stalled == ~isDisposed /\ behaviorQueue # <<>> /\ Active(loops) = {}

\* the loop committed currentHeight = targetHeight for request id
Committed(id) ==
    \E k \in Pos("commit", id) : trace[k][3] = TargetOf(id)

\* C6: if the bridge call of a request rejects (and the controller has not
\* been disposed meanwhile), the promise of the call that
\* started the drain does not reject, the request's onUIChange is invoked,
\* currentHeight is set to its targetHeight, and the requests behind it are
\* still processed.
C6_BridgeFailureRecovered ==
    \A id \in Ids :
        (Happened("bridgeFailed", id) /\ ~isDisposed) =>
            /\ ~Happened("processQueueThrew", id)
            /\ HasUIChange(id) => Happened("onUIChange", id)
            /\ Committed(id)
            /\ ~Stalled

\* C7: whichever of the bridge call and onUIComplete fails, a request's
\* onUIChange (which itself does not throw) is never invoked twice, and it
\* has been invoked exactly once when the request is settled.
C7_UIChangeExactlyOnce ==
    \A id \in Ids :
        (HasUIChange(id) /\ ~Happened("onUIChangeThrew", id)) =>
            /\ Count("onUIChange", id) <= 1
            /\ Happened("commit", id) => Count("onUIChange", id) = 1

\* C8: if onUIChange throws (controller not disposed), the error is
\* recovered: processQueue does not throw, no adjustHeight promise rejects,
\* the request is settled, executing is false once no loop is left, and
\* waiting requests are still processed.
C8_UIChangeErrorRecovered ==
    \A id \in Ids :
        (Happened("onUIChangeThrew", id) /\ ~isDisposed) =>
            /\ ~Happened("processQueueThrew", id)
            /\ \A c \in Ids : calls[c].promise # "rejected"
            /\ Committed(id)
            /\ Active(loops) = {} => ~executing
            /\ ~Stalled

\* C9: if onUIComplete throws or rejects (controller not disposed), the
\* error is swallowed: processQueue does not throw, currentHeight is set to
\* the request's targetHeight, and the loop goes on with the waiting requests.
C9_UICompleteErrorSwallowed ==
    \A id \in Ids :
        (Happened("onUICompleteFailed", id) /\ ~isDisposed) =>
            /\ ~Happened("processQueueThrew", id)
            /\ Committed(id)
            /\ ~Stalled

\* C10: when the bridge call of a request has failed, both of its callbacks
\* have been invoked, on the expand path as well as on the shrink path.
C10_CallbacksInvokedOnBridgeFailure ==
    \A id \in Ids :
        Happened("bridgeFailed", id) =>
            /\ HasUIChange(id) => Happened("onUIChange", id)
            /\ HasUIComplete(id) => Happened("onUIComplete", id)

-----------------------------------------------------------------------------
(* The promises adjustHeight returns *)

\* the call that started drain loop f, and the first call after it that
\* started another drain loop (or the number of calls made, plus one)
Starter(f) == loops[f].starter
IsStarter(id) == \E f \in DOMAIN loops : Starter(f) = id
NextStarter(f) == IF f < Len(loops) THEN Starter(f + 1) ELSE Len(calls) + 1
\* the requests accepted from the start of drain loop f until the next one
DrainedBy(f) == {id \in Ids : Starter(f) <= id /\ id < NextStarter(f)}

\* C11: the promise of a request accepted while a drain loop was running
\* does not resolve before the loop has finished that request (currentHeight
\* committed to its target).
C11_QueuedPromiseWaits ==
    \A id \in Ids :
        (~IsStarter(id) /\ calls[id].promise # "pending") => Committed(id)

\* C12: the promise of the call that started a drain loop is pending while
\* the loop runs and resolves only when the loop returns, with the queue
\* empty: its own request and every request accepted while the loop was
\* running have left the queue and, unless dispose() dropped them, have been
\* processed.
C12_StarterResolvesWhenDrained ==
    \A f \in DOMAIN loops :
        /\ f \in Active(loops) => calls[Starter(f)].promise = "pending"
        /\ calls[Starter(f)].promise = "resolved" =>
              /\ loops[f].pc = "returned"
              /\ \A id \in DrainedBy(f) :
                    /\ id \notin Queued(St)
                    /\ id \notin dropped => Committed(id)

\* a drain loop has returned after processing its starter's request and two
\* requests accepted while it was running
C12_Witness ==
    \E f \in DOMAIN loops :
        /\ calls[Starter(f)].promise = "resolved" /\ ~isDisposed
        /\ Cardinality(DrainedBy(f)) >= 3
        /\ \A id \in DrainedBy(f) : Committed(id)

\* no callback of request id has thrown or rejected
NoFailureOf(id) ==
    ~Happened("onUIChangeThrew", id) /\ ~Happened("onUICompleteFailed", id)

\* drain loop f has returned and no call has been accepted since: the
\* controller is as it was when the promise of the loop's starter resolved
JustResolved(f) == f = Len(loops) /\ loops[f].pc = "returned"

\* C13 as stated: a valid request submitted to an idle controller, no
\* callback throwing: when its promise resolves, currentHeight equals its
\* targetHeight and its onUIChange has been invoked.
C13_ResolvesAtTarget ==
    \A f \in DOMAIN loops :
        (NoCallbackFailed /\ JustResolved(f)) =>
            /\ calls[Starter(f)].promise = "resolved"
            /\ currentHeight = TargetOf(Starter(f))
            /\ HasUIChange(Starter(f)) => Happened("onUIChange", Starter(f))

\* C13 amended: a valid request (either boundary of the range included)
\* submitted to an idle controller, its callbacks not throwing, and no other
\* request accepted before its promise resolves: the promise does not
\* reject, it is resolved once the loop is over, the request has then been
\* committed with its onUIChange invoked, whether the bridge call succeeded
\* or failed, and at the moment it resolves currentHeight equals its
\* targetHeight.
C13_AloneResolvesAtTarget ==
    \A f \in DOMAIN loops :
        (DrainedBy(f) = {Starter(f)} /\ NoFailureOf(Starter(f))) =>
            /\ calls[Starter(f)].promise # "rejected"
            /\ f \notin Active(loops) =>
                  /\ calls[Starter(f)].promise = "resolved"
                  /\ isReasonableHeight(TargetOf(Starter(f)))
                  /\ Committed(Starter(f))
                  /\ HasUIChange(Starter(f)) => Happened("onUIChange", Starter(f))
            /\ JustResolved(f) => currentHeight = TargetOf(Starter(f))

\* the largest valid height, requested alone, its bridge call failed
C13_Witness ==
    \E f \in DOMAIN loops :
        /\ DrainedBy(f) = {Starter(f)} /\ NoFailureOf(Starter(f))
        /\ JustResolved(f)
        /\ TargetOf(Starter(f)) = MAX_REASONABLE_HEIGHT
        /\ HasUIChange(Starter(f))
        /\ Happened("bridgeFailed", Starter(f))

-----------------------------------------------------------------------------
(* Rejected calls and disposal *)

ValidationErrors ==
    {"invalid behavior", "expected number", "not finite", "below minimum",
     "out of range", "invalid onUIChange", "invalid onUIComplete"}

\* the controller proper: everything but the record of the last call
controller ==
    <<currentHeight, behaviorQueue, executing, isDisposed, loops, calls,
      pendingUI, trace, dropped>>

\* C14: an adjustHeight call with an invalid request (null, targetHeight not
\* a number, not finite, below 1, above 10000, or a callback that is not a
\* function), made on a controller that is not disposed, is rejected with a
\* validation error and changes nothing: the queue, the drain loops, the
\* bridge calls and callback invocations made so far, currentHeight,
\* executing and disposed are as before the call.
C14_InvalidRequestChangesNothing ==
    [][\A b \in InvalidBehaviors :
          (~isDisposed /\ AdjustHeight(b)) =>
              /\ lastCall'.result \in ValidationErrors
              /\ UNCHANGED controller]_vars

\* an invalid request has just been rejected while a request was in flight
\* and another one was waiting in the queue
C14_Witness ==
    /\ lastCall.op = "adjustHeight" /\ lastCall.result \in ValidationErrors
    /\ Active(loops) # {} /\ behaviorQueue # <<>>
    /\ executing /\ ~isDisposed

\* C15: whenever disposed is true the queue is empty, and every adjustHeight
\* call made on a disposed controller, whatever the request, valid or not,
\* is rejected with the disposed error and changes nothing: nothing is
\* queued, no drain loop starts, the bridge is not called.
C15_DisposedRejectsEverything ==
    /\ [](isDisposed => behaviorQueue = <<>>)
    /\ [][\A b \in Behaviors :
            (isDisposed /\ AdjustHeight(b)) =>
                /\ lastCall'.result = "disposed"
                /\ UNCHANGED controller]_vars

\* a call has just been rejected as disposed; dispose() had been called
\* while a request was in flight and another one was waiting
C15_Witness ==
    /\ isDisposed
    /\ lastCall.op = "adjustHeight" /\ lastCall.result = "disposed"
    /\ Active(loops) # {}
    /\ dropped # {}

\* nothing has been done for request id: it has not been dequeued, the
\* bridge has not been called for it, none of its callbacks has been invoked
Untouched(id) == \A k \in DOMAIN trace : trace[k][2] # id

\* C16: a request that was still waiting in the queue when dispose() was
\* called is dropped: it is no longer queued, and in every state from then
\* on nothing has been done for it (no dequeue, no bridge call, no
\* onUIChange, no onUIComplete).
C16_QueuedRequestsDropped ==
    \A id \in dropped :
        /\ id \notin Queued(St)
        /\ Untouched(id)

\* dispose() was called with a request in flight and another one waiting;
\* the request in flight has been finished since and the loop has returned
C16_Witness ==
    /\ isDisposed /\ Active(loops) = {} /\ Len(loops) >= 1
    /\ \E id \in dropped :
          /\ id > 1 /\ Happened("commit", id - 1)
          /\ HasUIChange(id) /\ HasUIComplete(id)

\* C17: dispose() on a controller that is already disposed returns normally
\* and changes nothing: queue, executing, disposed, currentHeight and the
\* drain loop still finishing its request are as before the call.
C17_DisposeIdempotent ==
    [][(isDisposed /\ Dispose) =>
          /\ lastCall'.result = "was disposed"
          /\ UNCHANGED controller]_vars

\* dispose() has just been called again; the request that was in flight at
\* the first call has been committed in between
C17_Witness ==
    /\ lastCall.op = "dispose" /\ lastCall.result = "was disposed"
    /\ currentHeight # 0
    /\ dropped # {}

-----------------------------------------------------------------------------
(* currentHeight *)

\* request id was dequeued when currentHeight was already its targetHeight
SameHeightCase(id) == Dequeued(id) /\ TargetOf(id) = HeightAtDequeue(id)

Commits == {k \in DOMAIN trace : trace[k][1] = "commit"}
LastCommit == CHOOSE k \in Commits : \A j \in Commits : j <= k

\* C19: currentHeight changes only where the drain loop settles a request,
\* and then to that request's targetHeight: in every state it is the
\* targetHeight of the request settled last, or 0 if none has settled.  So
\* accepting or rejecting a request and dispose() leave it unchanged, and
\* while a request awaits its bridge call or its onUIComplete it still has
\* the value committed by the request before.
C19_HeightChangesOnlyAtSettle ==
    /\ [](currentHeight = IF Commits = {} THEN 0 ELSE TargetOf(trace[LastCommit][2]))
    /\ [](\A k \in Commits : trace[k][3] = TargetOf(trace[k][2]))
    /\ [][currentHeight' # currentHeight =>
             /\ Len(trace') > Len(trace)
             /\ lastCall'.op # "dispose"
             /\ lastCall'.op = "adjustHeight" => lastCall'.result = "ok"]_vars

\* a request for another height awaits its bridge call or its onUIComplete
\* on a disposed controller; currentHeight is what the request before it
\* committed
C19_Witness ==
    \E f \in Active(loops) :
        /\ loops[f].pc \in {"L101", "L106", "L114", "L116"}
        /\ loops[f].cur > 1
        /\ TargetOf(loops[f].cur) # currentHeight
        /\ currentHeight = TargetOf(loops[f].cur - 1)
        /\ isDisposed

-----------------------------------------------------------------------------
(* No cancellation *)

\* request id is the one a drain loop is working on
InFlight(id) == \E f \in Active(loops) : loops[f].cur = id

-----------------------------------------------------------------------------
(* Consumption of the queue *)

\* C21: every accepted request is consumed once: it is dequeued at most
\* once, and on a controller that is not disposed it never waits in the
\* queue with no drain loop left to dequeue it (with a loop active, the
\* request is reached as soon as the awaited calls and callbacks settle).
C21_EveryRequestConsumed ==
    /\ \A id \in Ids : Count("dequeue", id) <= 1
    /\ ~(~isDisposed /\ behaviorQueue # <<>> /\ Active(loops) = {})

-----------------------------------------------------------------------------
(* Order of the checks *)

\* the checks in the order the claim gives, each with its error
CheckOrder ==
    <<"disposed", "invalid behavior", "expected number", "not finite",
      "below minimum", "out of range", "invalid onUIChange", "invalid onUIComplete">>

\* check e, taken alone, fails for request b on a controller disposed or not
Fails(e, disposed, b) ==
    CASE e = "disposed" -> disposed
      [] e = "invalid behavior" -> b.tag # "object"
      [] b.tag # "object" -> FALSE
      [] e = "expected number" -> b.targetHeight.t = "string"
      [] e = "not finite" -> b.targetHeight.t \in {"NaN", "Infinity", "-Infinity"}
      [] e = "below minimum" ->
            \/ b.targetHeight.t = "-Infinity"
            \/ b.targetHeight.t = "number" /\ b.targetHeight.v < 1
      [] e = "out of range" ->
            \/ b.targetHeight.t \in {"NaN", "Infinity", "-Infinity"}
            \/ b.targetHeight.t = "number"
                  /\ (b.targetHeight.v < 1 \/ b.targetHeight.v > 10000)
      [] e = "invalid onUIChange" -> b.onUIChange = "notFunction"
      [] e = "invalid onUIComplete" -> b.onUIComplete = "notFunction"

\* the error of the first check in the order that fails, or "ok"
FirstFailing(disposed, b) ==
    LET failing == {k \in DOMAIN CheckOrder : Fails(CheckOrder[k], disposed, b)}
    IN IF failing = {} THEN "ok"
       ELSE CheckOrder[CHOOSE k \in failing : \A j \in failing : k <= j]

\* C22: the first failing check, in the order disposed, request object,
\* typeof targetHeight, finite, minimum, maximum, onUIChange, onUIComplete,
\* determines the error of every adjustHeight call; in particular NaN and
\* -Infinity give the not-finite error, 0 the below-minimum error, 20000
\* the range error, whatever the callbacks are.  (In a step that is a
\* call of adjustHeight, no call made with b ends with another result than
\* the one of b's first failing check; the result of a call made with b is
\* Rejection(St, b), which is looked at first.)
C22_FirstFailingCheckDecides ==
    /\ [](~isDisposed =>
            /\ Rejection(St, Behavior(NotANumber, "notFunction", "notFunction")) = "not finite"
            /\ Rejection(St, Behavior(NegInfinity, "notFunction", "notFunction")) = "not finite"
            /\ Rejection(St, Behavior(Num(0), "notFunction", "notFunction")) = "below minimum"
            /\ Rejection(St, Behavior(Num(20000), "notFunction", "notFunction")) = "out of range")
    /\ [][lastCall'.op = "adjustHeight" =>
            \A b \in Behaviors :
                \/ lastCall'.result # Rejection(St, b)
                \/ lastCall'.result = FirstFailing(isDisposed, b)
                \/ ~AdjustHeight(b)]_vars

\* a request whose targetHeight is not finite and whose callbacks are no
\* functions has just been rejected as not finite, with a request in flight
C22_Witness ==
    /\ lastCall.op = "adjustHeight" /\ lastCall.result = "not finite"
    /\ \A b \in InvalidBehaviors :
          b.tag = "object" /\ b.targetHeight.t # "number" => b.onUIChange = "notFunction"
    /\ Active(loops) # {}

-----------------------------------------------------------------------------
(* The flags *)

\* the events added to the trace by the step
NewEvents == SubSeq(trace', Len(trace) + 1, Len(trace'))

\* C23: disposed starts false, becomes true only in a step in which
\* dispose() is called (by a caller, or by a callback invoked in that step),
\* and once true is never false again, whatever is called and whatever the
\* drain loop does.
C23_DisposedMonotonic ==
    /\ ~isDisposed
    /\ [][isDisposed => isDisposed']_vars
    /\ [][(~isDisposed /\ isDisposed') =>
             \/ lastCall'.op = "dispose"
             \/ \E k \in DOMAIN NewEvents :
                   NewEvents[k][1] \in {"onUIChange", "onUIComplete"}]_vars

\* on a disposed controller the drain loop has finished the request that
\* was in flight, and a call has been rejected since
C23_Witness ==
    /\ isDisposed /\ Active(loops) = {}
    /\ lastCall.op = "adjustHeight" /\ lastCall.result = "disposed"
    /\ \E id \in Ids : Happened("bridgeFailed", id) /\ Happened("commit", id)
    /\ dropped # {}

-----------------------------------------------------------------------------
(* The height the bridge reports *)

\* the bridge reported, for request id, a height that was not the one asked
Misreported(id) ==
    \E k \in Pos("bridgeOk", id) : trace[k][3] # TargetOf(id)

\* C24: the height the bridge reports is not used.  Whatever it reports,
\* the height committed for a request is its targetHeight, currentHeight is
\* the targetHeight of the request settled last, and the next request was
\* dequeued against that targetHeight: it waits at the await of the expand
\* path exactly if its own targetHeight is larger.
C24_ReportedHeightUnused ==
    /\ \A id \in Ids : Happened("commit", id) => Committed(id)
    /\ currentHeight = IF Commits = {} THEN 0 ELSE TargetOf(trace[LastCommit][2])
    /\ \A id \in Ids :
          (id > 1 /\ Dequeued(id)) => HeightAtDequeue(id) = TargetOf(id - 1)
    /\ \A f \in Active(loops) :
          loops[f].cur > 1 =>
              (loops[f].pc = "L101" <=> TargetOf(loops[f].cur) > TargetOf(loops[f].cur - 1))

\* the bridge reported 10000 for a request for 1; the next request, for
\* 10000, has been dequeued and waits on the expand path
C24_Witness ==
    \E f \in Active(loops) :
        /\ loops[f].cur > 1 /\ loops[f].pc = "L101"
        /\ Misreported(loops[f].cur - 1)
        /\ \E k \in Pos("bridgeOk", loops[f].cur - 1) :
              trace[k][3] = TargetOf(loops[f].cur)
        /\ currentHeight = TargetOf(loops[f].cur - 1)

-----------------------------------------------------------------------------
(* A call that never settles *)

Awaits == {"L101", "L106", "L114", "L116"}

\* C25: as long as the bridge call or the onUIComplete that a drain loop
\* awaits has not settled, the queue stalls.  Every step that leaves the
\* loop where it is adds nothing to the trace (no dequeue, no bridge call,
\* no callback), leaves currentHeight alone and leaves the promise of the
\* loop's starter pending; the only thing that happens to the queue is that
\* an accepted request is appended to it, or that dispose() empties it.
C25_UnsettledAwaitStallsQueue ==
    [][\A f \in DOMAIN loops :
          (loops[f].pc \in Awaits /\ loops'[f] = loops[f]) =>
              /\ trace' = trace
              /\ currentHeight' = currentHeight
              /\ Len(loops') = Len(loops)
              /\ calls[loops[f].starter].promise = "pending"
              /\ calls'[loops[f].starter].promise = "pending"
              /\ \/ behaviorQueue' = behaviorQueue
                 \/ /\ Len(calls') = Len(calls) + 1
                    /\ behaviorQueue' = Append(behaviorQueue, Len(calls'))
                 \/ isDisposed' /\ behaviorQueue' = <<>>]_vars

\* the bridge call of the first request has not settled; two more requests
\* have been accepted and wait in the queue
C25_Witness ==
    \E f \in Active(loops) :
        /\ loops[f].pc \in Awaits
        /\ Len(behaviorQueue) >= 2
        /\ lastCall.op = "adjustHeight" /\ lastCall.result = "ok"
        /\ Len(trace) = 2

-----------------------------------------------------------------------------
(* Submission and disposal in one turn *)

\* nothing awaited has settled yet: all that has happened happened inside
\* calls of adjustHeight and dispose
NothingSettledYet ==
    \A k \in DOMAIN trace : trace[k][1] \in {"dequeue", "bridgeCall"}

\* C26: requests submitted without awaiting do not start executing, so a
\* dispose() called before anything awaited has settled drops all of them:
\* none has reached bridge.updateHeight, and the queue is empty.
C26_SameTurnDisposeDropsAll ==
    (isDisposed /\ NothingSettledYet) =>
        /\ BridgeCalls = <<>>
        /\ dropped = Ids
        /\ behaviorQueue = <<>>

-----------------------------------------------------------------------------
(* One bridge call per request *)

\* C27: every dequeued request causes exactly one call of
\* bridge.updateHeight, with its targetHeight: never more than one, and,
\* once no drain loop is working on the request any more, not zero,
\* whichever of the bridge call and the callbacks failed.
C27_ExactlyOneBridgeCall ==
    \A id \in Ids :
        /\ Count("bridgeCall", id) <= 1
        /\ \A k \in Pos("bridgeCall", id) : trace[k][3] = TargetOf(id)
        /\ (Dequeued(id) /\ ~InFlight(id)) => Count("bridgeCall", id) = 1

-----------------------------------------------------------------------------
(* The executing flag *)

\* C28: executing is true exactly when a drain loop is active, that is,
\* when an invocation of processQueue has started and has neither returned
\* nor thrown; also after dispose() with a request in flight and after a
\* callback has thrown.
C28_ExecutingIffLoopActive ==
    executing <=> Active(loops) # {}

-----------------------------------------------------------------------------
(* The choice of the path *)

\* the targetHeight of the request settled just before request id
PrevTarget(id) == IF id = 1 THEN 0 ELSE TargetOf(id - 1)

\* the positions at which a callback of request id was invoked
CallbackPos(id) == Pos("onUIChange", id) \cup Pos("onUIComplete", id)

\* C29: the path of a request is chosen when it is dequeued, against the
\* targetHeight of the request settled just before it (0 for the first),
\* whether or not the bridge call of that request failed: currentHeight at
\* the dequeue is that targetHeight, the loop waits at an await of the
\* expand path exactly if the request's targetHeight is larger, and a
\* request with callbacks has its bridge call before all its callbacks
\* exactly if its targetHeight is larger.
C29_PathChosenAtDequeue ==
    \A id \in Ids :
        Dequeued(id) =>
            /\ HeightAtDequeue(id) = PrevTarget(id)
            /\ \A f \in Active(loops) :
                  (loops[f].cur = id /\ loops[f].pc \in Awaits) =>
                      (loops[f].pc \in {"L101", "L106"} <=> TargetOf(id) > PrevTarget(id))
            /\ CallbackPos(id) # {} =>
                  ((\A q \in CallbackPos(id) : SomeBefore(Pos("bridgeCall", id), q))
                      <=> TargetOf(id) > PrevTarget(id))

\* the first request asked for 10000 and its bridge call failed; the
\* second, for 1, was accepted while currentHeight was still 0 and has
\* taken the shrink path: its onUIChange came before its bridge call
C29_Witness ==
    /\ Len(calls) >= 2 /\ Len(loops) = 1
    /\ TargetOf(1) = MAX_REASONABLE_HEIGHT /\ Happened("bridgeFailed", 1)
    /\ TargetOf(2) = MIN_REASONABLE_HEIGHT
    /\ AllBefore(Pos("onUIChange", 2), Pos("bridgeCall", 2))
    /\ Happened("onUIChange", 2) /\ Happened("bridgeCall", 2)

\* C30: the first request processed takes the expand path: it is dequeued
\* at currentHeight 0 with a targetHeight of at least 1, the loop working
\* on it waits only at the awaits of the expand path, and its bridge call
\* precedes each of its callbacks; a request dequeued with a targetHeight
\* not larger than currentHeight (smaller or equal) is the second or later.
C30_FirstRequestExpands ==
    /\ Dequeued(1) =>
          /\ HeightAtDequeue(1) = 0
          /\ TargetOf(1) >= MIN_REASONABLE_HEIGHT
          /\ ExpandCase(1)
          /\ \A q \in CallbackPos(1) : SomeBefore(Pos("bridgeCall", 1), q)
    /\ \A f \in Active(loops) :
          (loops[f].cur = 1 /\ loops[f].pc \in Awaits) => loops[f].pc \in {"L101", "L106"}
    /\ \A id \in Ids : ShrinkCase(id) => id >= 2

\* the first request, for the smallest height, ran its onUIChange after
\* its bridge call; the second asks for the same height and is dequeued
\* on the other path
C30_Witness ==
    /\ Len(calls) >= 2
    /\ TargetOf(1) = MIN_REASONABLE_HEIGHT /\ Happened("onUIChange", 1)
    /\ AllBefore(Pos("bridgeCall", 1), Pos("onUIChange", 1))
    /\ TargetOf(2) = TargetOf(1) /\ ShrinkCase(2)

-----------------------------------------------------------------------------
(* The heights given to the bridge *)

\* the heights the controller has passed to bridge.updateHeight
HeightsPassed == {trace[k][3] : k \in {j \in DOMAIN trace : trace[j][1] = "bridgeCall"}}

\* C31: every height the controller has passed to bridge.updateHeight
\* lies in [1, 10000], currentHeight is 0 or lies in [1, 10000], and the
\* guard of FeishuPlatformBridge.updateHeight lets every height pass that
\* the controller has given to the bridge.
C31_BridgeHeightsInRange ==
    /\ currentHeight = 0 \/ isReasonableHeight(currentHeight)
    /\ \A h \in HeightsPassed :
          /\ h \in MIN_REASONABLE_HEIGHT..MAX_REASONABLE_HEIGHT
          /\ ~NotPositive(Num(h))
          /\ \A d \in DocMiniApps :
                updateHeight(Num(h), d).settled.outcome = "rejected" =>
                    updateHeight(Num(h), d).settled.message # "Invalid height"

\* the bridge has been asked for the smallest and for the largest height,
\* currentHeight is the largest, and a request for a height out of the
\* range has just been rejected
C31_Witness ==
    /\ HeightsPassed = {MIN_REASONABLE_HEIGHT, MAX_REASONABLE_HEIGHT}
    /\ currentHeight = MAX_REASONABLE_HEIGHT
    /\ lastCall.op = "adjustHeight"
    /\ lastCall.result \in {"below minimum", "out of range"}

-----------------------------------------------------------------------------
(* FeishuPlatformBridge.updateHeight *)

\* a finite number above 0, or Infinity
Positive(targetHeight) ==
    \/ targetHeight.t = "Infinity"
    \/ targetHeight.t = "number" /\ targetHeight.v > 0

\* the calls made to docMiniApp.Bridge.updateHeight by the last call of
\* updateHeight: the events after the last "updateHeight" event
LastPlatformCalls ==
    LET starts == {k \in DOMAIN trace : trace[k][1] = "updateHeight"}
        from == CHOOSE k \in starts : \A j \in starts : j <= k
    IN [k \in 1..(Len(trace) - from) |-> trace[from + k][3]]

\* C33: updateHeight rejects with a PlatformBridgeError for a targetHeight
\* <= 0 without calling the platform; for a positive targetHeight it
\* resolves with targetHeight when Bridge or Bridge.updateHeight is absent
\* (platform not called) or when the platform call succeeds (called once,
\* with targetHeight), and rejects with a PlatformBridgeError when the
\* platform call throws or rejects.
C33_FeishuUpdateHeight ==
    lastCall.op = "updateHeight" =>
        LET th == lastCall.targetHeight
            d == lastCall.docMiniApp
        IN /\ NotPositive(th) =>
                 /\ lastCall.settled.outcome = "rejected"
                 /\ lastCall.settled.error = "PlatformBridgeError"
                 /\ LastPlatformCalls = <<>>
           /\ (Positive(th) /\ d \in {"noBridge", "noUpdateHeight"}) =>
                 /\ lastCall.settled = [outcome |-> "resolved", value |-> th]
                 /\ LastPlatformCalls = <<>>
           /\ (Positive(th) /\ d = "resolves") =>
                 /\ lastCall.settled = [outcome |-> "resolved", value |-> th]
                 /\ LastPlatformCalls = <<th>>
           /\ (Positive(th) /\ d \in {"rejects", "throws"}) =>
                 /\ lastCall.settled.outcome = "rejected"
                 /\ lastCall.settled.error = "PlatformBridgeError"
                 /\ LastPlatformCalls = <<th>>

\* updateHeight(0) has been rejected on a platform whose call would have
\* succeeded, after a call for 600 that the platform made fail
C33_Witness ==
    /\ lastCall.op = "updateHeight"
    /\ lastCall.targetHeight = Num(0) /\ lastCall.docMiniApp = "resolves"
    /\ lastCall.settled.outcome = "rejected"
    /\ Len(trace) = 3
    /\ trace[1] = <<"updateHeight", 0, Num(600)>>
    /\ trace[2] = <<"platformCall", 0, Num(600)>>

-----------------------------------------------------------------------------
(* Re-entrant submission *)

\* the requests accepted in the step from inside a callback: all those
\* accepted in a step that resumes a drain loop, and all but the first of
\* those accepted in a step that is a call of adjustHeight by a caller
ReentrantIds ==
    IF lastCall'.op = "adjustHeight" /\ lastCall'.result = "ok"
    THEN (Len(calls) + 2)..Len(calls')
    ELSE (Len(calls) + 1)..Len(calls')

\* C32: a request accepted from inside onUIChange or onUIComplete of the
\* request in flight starts no drain loop of its own (the step starts none
\* beyond the one of the caller's own adjustHeight, and at most one loop
\* is active after it), its promise is resolved at once, so that a
\* callback awaiting it goes on, and unless dispose() has dropped it, it
\* waits in the queue of, or has been dequeued by, the loop that is active.
C32_ReentrantSubmissionSafe ==
    [][\A id \in ReentrantIds :
          /\ Len(loops') <= Len(loops) + (IF lastCall'.op = "adjustHeight" THEN 1 ELSE 0)
          /\ Cardinality(Active(loops')) <= 1
          /\ calls'[id].promise = "resolved"
          /\ \/ id \in dropped'
             \/ \E f \in Active(loops') :
                   \/ loops'[f].cur = id
                   \/ \E k \in DOMAIN behaviorQueue' : behaviorQueue'[k] = id]_vars

====
